---- MODULE Spec2Model ----
(***************************************************************************)
(* Construction-time validation of the preprocessor directive tree of      *)
(* cpptree (src/src/cpptree/models.py).                                     *)
(*                                                                         *)
(* Python strings are sequences of one-character strings, so that          *)
(* stripping, regex matching and splitting are computed character by       *)
(* character.  Optional values are sequences of length at most one:        *)
(* None is << >> and a present value v is << v >>.  Objects live in a heap *)
(* and refer to their children by heap index, as Python lists hold         *)
(* references.                                                             *)
(***************************************************************************)
EXTENDS Naturals, Sequences, FiniteSets

VARIABLES heap, last

vars == <<heap, last>>

(***************************************************************************)
(* Bounds of the model.                                                    *)
(***************************************************************************)
\* longest run of blanks put before '#' and between '#' and the keyword
MaxWs == 2
\* number of objects one building session may hold
MaxNodes == 6
\* longest list handed to a constructor
MaxBody == 1
\* longest list an append may produce
MaxList == 2
\* number of leaves and branches built before a composite is composed
MaxInputs == 3

(***************************************************************************)
(* Characters.                                                             *)
(***************************************************************************)
Lower == {"a","b","c","d","e","f","g","h","i","j","k","l","m",
          "n","o","p","q","r","s","t","u","v","w","x","y","z"}
Upper == {"A","B","C","D","E","F","G","H","I","J","K","L","M",
          "N","O","P","Q","R","S","T","U","V","W","X","Y","Z"}
Digit == {"0","1","2","3","4","5","6","7","8","9"}

\* [A-Za-z_]
IdentStart == Lower \cup Upper \cup {"_"}
\* [A-Za-z0-9_]
IdentChar == IdentStart \cup Digit

\* the characters str.strip / str.lstrip / str.split(None) treat as blank
Whitespace == {" ", "\t", "\n"}

None == << >>
Some(v) == << v >>

(***************************************************************************)
(* Keyword spellings.                                                      *)
(***************************************************************************)
Chars == [include |-> <<"i","n","c","l","u","d","e">>,
          define  |-> <<"d","e","f","i","n","e">>,
          undef   |-> <<"u","n","d","e","f">>,
          pragma  |-> <<"p","r","a","g","m","a">>,
          error   |-> <<"e","r","r","o","r">>,
          if      |-> <<"i","f">>,
          ifdef   |-> <<"i","f","d","e","f">>,
          ifndef  |-> <<"i","f","n","d","e","f">>,
          elif    |-> <<"e","l","i","f">>,
          else    |-> <<"e","l","s","e">>,
          endif   |-> <<"e","n","d","i","f">>]

\* Literal["include", "define", "undef", "pragma", "error"]
DirectiveKinds == {"include", "define", "undef", "pragma", "error"}
\* Literal["if", "ifdef", "ifndef", "elif"]
BranchKinds == {"if", "ifdef", "ifndef", "elif"}
\* the refused keywords taken to be every directive keyword but the closing ones
ForbiddenKeywords_every_directive ==
    {Chars[k] : k \in {"if", "ifdef", "ifndef", "elif", "include", "define",
                        "undef", "pragma", "error"}}

\* the keywords the body walk of a group refuses
ForbiddenKeywords == {Chars[k] : k \in {"if", "ifdef", "ifndef", "elif", "else", "endif"}}

(***************************************************************************)
(* String helpers of the Python runtime.                                   *)
(***************************************************************************)
RECURSIVE lstrip(_)
lstrip(s) ==
    IF s = << >> THEN << >>
    ELSE IF Head(s) \in Whitespace THEN lstrip(Tail(s))
    ELSE s

RECURSIVE rstrip(_)
rstrip(s) ==
    IF s = << >> THEN << >>
    ELSE IF s[Len(s)] \in Whitespace THEN rstrip(SubSeq(s, 1, Len(s) - 1))
    ELSE s

strip(s) == rstrip(lstrip(s))

\* length of the longest leading run of s drawn from the set cs
RECURSIVE RunLen(_, _)
RunLen(s, cs) ==
    IF s = << >> THEN 0
    ELSE IF Head(s) \in cs THEN 1 + RunLen(Tail(s), cs)
    ELSE 0

\* length of the longest leading run of non-blank characters of s
RECURSIVE TokenLen(_)
TokenLen(s) ==
    IF s = << >> THEN 0
    ELSE IF Head(s) \in Whitespace THEN 0
    ELSE 1 + TokenLen(Tail(s))

\* s.split(None, 1)[0] if s else "": the first blank-delimited token
\* (the callers pass a string without leading blanks)
FirstToken(s) ==
    IF s = << >> THEN << >>
    ELSE SubSeq(lstrip(s), 1, TokenLen(lstrip(s)))

(***************************************************************************)
(* helpers (pure functions)                                                *)
(***************************************************************************)
\* re.compile(r"^[A-Za-z_][A-Za-z0-9_]*").match(s): the matched text,
\* << >> when there is no match (a match is never empty)
_C_IDENT_PREFIX(s) ==
    IF s = << >> \/ Head(s) \notin IdentStart THEN << >>
    ELSE SubSeq(s, 1, 1 + RunLen(Tail(s), IdentChar))

\* the pattern without its '$' anchor: a leading identifier is enough
_C_IDENT_unanchored(c) ==
    c # << >> /\ Head(c) \in IdentStart

\* re.compile(r"^[A-Za-z_][A-Za-z0-9_]*$").match(c) is not None;
\* '$' matches at the end and also just before a final newline
_C_IDENT(c) ==
    /\ c # << >>
    /\ Head(c) \in IdentStart
    /\ LET n == 1 + RunLen(Tail(c), IdentChar) IN
       \/ n = Len(c)
       \/ n = Len(c) - 1 /\ c[Len(c)] = "\n"

\* [ok |-> FALSE] stands for the ValueError; s is the returned string
_strip_hash_prefix(raw) ==
    LET s == lstrip(raw) IN
    IF s = << >> \/ Head(s) # "#"
    THEN [ok |-> FALSE, s |-> << >>]
    ELSE [ok |-> TRUE, s |-> s]

\* the keyword _expect_directive reads from a raw that starts with '#'
ExpectKeyword(raw) ==
    _C_IDENT_PREFIX(lstrip(Tail(_strip_hash_prefix(raw).s)))

\* the keyword test done with startswith instead of the longest identifier
_expect_directive_startswith(raw, expected) ==
    LET s == lstrip(Tail(_strip_hash_prefix(raw).s)) IN
    IF ~ _strip_hash_prefix(raw).ok THEN "MissingHash"
    ELSE IF Len(s) < Len(Chars[expected])
            \/ SubSeq(s, 1, Len(Chars[expected])) # Chars[expected]
         THEN "KeywordMismatch"
    ELSE "ok"

_expect_directive(raw, expected) ==
    IF ~ _strip_hash_prefix(raw).ok THEN "MissingHash"
    ELSE IF ExpectKeyword(raw) # Chars[expected] THEN "KeywordMismatch"
    ELSE "ok"

_require_nonempty_condition(cond) ==
    IF strip(cond) = << >> THEN "EmptyCondition" ELSE "ok"

_require_identifier(cond) ==
    IF _require_nonempty_condition(cond) # "ok" THEN "EmptyCondition"
    ELSE IF ~ _C_IDENT(strip(cond)) THEN "InvalidIdentifier"
    ELSE "ok"

(***************************************************************************)
(* DirectiveNode                                                           *)
(***************************************************************************)
_validate_directive(kind, raw) ==
    IF kind \notin DirectiveKinds THEN "LiteralError"
    ELSE IF strip(raw) = << >> THEN "EmptyRaw"
    ELSE _expect_directive(raw, kind)

NewDirectiveNode(kind, raw) ==
    LET out == _validate_directive(kind, raw) IN
    /\ Len(heap) < MaxNodes
    /\ heap' = IF out = "ok"
               THEN Append(heap, [type |-> "DirectiveNode", kind |-> kind, raw |-> raw])
               ELSE heap
    /\ last' = [op |-> "DirectiveNode", kind |-> kind, raw |-> raw, outcome |-> out]

(***************************************************************************)
(* TextBlock                                                               *)
(***************************************************************************)
\* content is Optional here: None is what the validator tests for
_validate_text(content) ==
    IF content = None THEN "NullContent" ELSE "ok"

NewTextBlock(content) ==
    LET out == _validate_text(content) IN
    /\ Len(heap) < MaxNodes
    /\ heap' = IF out = "ok"
               THEN Append(heap, [type |-> "TextBlock", content |-> content[1]])
               ELSE heap
    /\ last' = [op |-> "TextBlock", content |-> content, outcome |-> out]

(***************************************************************************)
(* ConditionalBranch                                                       *)
(***************************************************************************)
\* body is Optional here (None or a list of heap indices)
_validate_branch(kind, condition, body, raw) ==
    IF kind \notin BranchKinds THEN "LiteralError"
    ELSE IF strip(raw) = << >> THEN "EmptyRaw"
    ELSE IF _expect_directive(raw, kind) # "ok" THEN _expect_directive(raw, kind)
    ELSE IF kind \in {"if", "elif"} /\ _require_nonempty_condition(condition) # "ok"
         THEN _require_nonempty_condition(condition)
    ELSE IF kind \notin {"if", "elif"} /\ _require_identifier(condition) # "ok"
         THEN _require_identifier(condition)
    ELSE IF body = None THEN "NullBody"
    ELSE "ok"

NewConditionalBranch(kind, condition, body, raw) ==
    LET out == _validate_branch(kind, condition, body, raw) IN
    /\ Len(heap) < MaxNodes
    /\ heap' = IF out = "ok"
               THEN Append(heap, [type |-> "ConditionalBranch", kind |-> kind,
                                  condition |-> condition, body |-> body[1],
                                  raw |-> raw])
               ELSE heap
    /\ last' = [op |-> "ConditionalBranch", kind |-> kind, condition |-> condition,
                body |-> body, raw |-> raw, outcome |-> out]

(***************************************************************************)
(* ConditionalGroup                                                        *)
(***************************************************************************)
\* the keyword the body walk reads from the raw of a DirectiveNode child
WalkKeyword(raw) ==
    FirstToken(lstrip(Tail(_strip_hash_prefix(raw).s)))

\* the body walk with nested groups refused as unknown nodes
WalkNode_no_nesting(h, n) ==
    IF h[n].type = "DirectiveNode"
    THEN IF ~ _strip_hash_prefix(h[n].raw).ok THEN "MissingHash"
         ELSE IF WalkKeyword(h[n].raw) \in ForbiddenKeywords
              THEN "IllegalNestedDirective"
         ELSE "ok"
    ELSE IF h[n].type = "TextBlock" THEN "ok"
    ELSE "UnknownNodeType"

\* one turn of the loop of _walk, on the object at heap index n
WalkNode(h, n) ==
    IF h[n].type = "DirectiveNode"
    THEN IF ~ _strip_hash_prefix(h[n].raw).ok THEN "MissingHash"
         ELSE IF WalkKeyword(h[n].raw) \in ForbiddenKeywords
              THEN "IllegalNestedDirective"
         ELSE "ok"
    ELSE IF h[n].type = "ConditionalGroup" THEN "ok"
    ELSE IF h[n].type = "TextBlock" THEN "ok"
    ELSE "UnknownNodeType"

\* the first error the loop meets, "ok" when it meets none
_walk(h, nodes) ==
    LET bad == {i \in 1..Len(nodes) : WalkNode(h, nodes[i]) # "ok"} IN
    IF bad = {} THEN "ok"
    ELSE WalkNode(h, nodes[CHOOSE i \in bad : \A j \in bad : i <= j])

\* the walks of the elifs' bodies, in order
WalkElifs(h, elifs) ==
    LET bad == {i \in 1..Len(elifs) : _walk(h, h[elifs[i]].body) # "ok"} IN
    IF bad = {} THEN "ok"
    ELSE _walk(h, h[elifs[CHOOSE i \in bad : \A j \in bad : i <= j]].body)

\* the validator with the entry-kind check left out
_validate_group_no_entry_check(h, entry, elifs, else_body, else_raw, endif_raw) ==
    IF elifs # None /\ \E i \in 1..Len(elifs[1]) : h[elifs[1][i]].kind # "elif"
         THEN "ElifKind"
    ELSE IF _walk(h, h[entry].body) # "ok" THEN _walk(h, h[entry].body)
    ELSE IF elifs # None /\ WalkElifs(h, elifs[1]) # "ok" THEN WalkElifs(h, elifs[1])
    ELSE IF else_body # None THEN _walk(h, else_body[1])
    ELSE "ok"

\* the validator with endif_raw held to the keyword endif
_validate_group_endif_checked(h, entry, elifs, else_body, else_raw, endif_raw) ==
    IF h[entry].kind \notin {"if", "ifdef", "ifndef"} THEN "EntryKind"
    ELSE IF elifs # None /\ \E i \in 1..Len(elifs[1]) : h[elifs[1][i]].kind # "elif"
         THEN "ElifKind"
    ELSE IF _walk(h, h[entry].body) # "ok" THEN _walk(h, h[entry].body)
    ELSE IF elifs # None /\ WalkElifs(h, elifs[1]) # "ok" THEN WalkElifs(h, elifs[1])
    ELSE IF else_body # None /\ _walk(h, else_body[1]) # "ok" THEN _walk(h, else_body[1])
    ELSE _expect_directive(endif_raw, "endif")

\* entry is the heap index of a ConditionalBranch, elifs an Optional list of
\* such indices, else_body an Optional list of heap indices; step 3 of the
\* code (else_body is a list when given) cannot fail on a list
_validate_group(h, entry, elifs, else_body, else_raw, endif_raw) ==
    IF h[entry].kind \notin {"if", "ifdef", "ifndef"} THEN "EntryKind"
    ELSE IF elifs # None /\ \E i \in 1..Len(elifs[1]) : h[elifs[1][i]].kind # "elif"
         THEN "ElifKind"
    ELSE IF _walk(h, h[entry].body) # "ok" THEN _walk(h, h[entry].body)
    ELSE IF elifs # None /\ WalkElifs(h, elifs[1]) # "ok" THEN WalkElifs(h, elifs[1])
    ELSE IF else_body # None THEN _walk(h, else_body[1])
    ELSE "ok"

NewConditionalGroup(entry, elifs, else_body, else_raw, endif_raw) ==
    LET out == _validate_group(heap, entry, elifs, else_body, else_raw, endif_raw) IN
    /\ Len(heap) < MaxNodes
    /\ heap' = IF out = "ok"
               THEN Append(heap, [type |-> "ConditionalGroup", entry |-> entry,
                                  elifs |-> elifs, else_body |-> else_body,
                                  else_raw |-> else_raw, endif_raw |-> endif_raw])
               ELSE heap
    /\ last' = [op |-> "ConditionalGroup", entry |-> entry, elifs |-> elifs,
                else_body |-> else_body, else_raw |-> else_raw,
                endif_raw |-> endif_raw, outcome |-> out]

(***************************************************************************)
(* FileRoot                                                                *)
(***************************************************************************)
\* the validator with path tested without stripping it
_validate_root_no_strip(path, items) ==
    IF path = << >> THEN "EmptyPath"
    ELSE IF items = None THEN "NullItems"
    ELSE IF \E i \in 1..Len(items[1]) : items[1][i] = 0 THEN "NullItem"
    ELSE "ok"

\* items is an Optional list whose elements are heap indices or 0 for None
_validate_root(path, items) ==
    IF strip(path) = << >> THEN "EmptyPath"
    ELSE IF items = None THEN "NullItems"
    ELSE IF \E i \in 1..Len(items[1]) : items[1][i] = 0 THEN "NullItem"
    ELSE "ok"

NewFileRoot(path, items) ==
    LET out == _validate_root(path, items) IN
    /\ Len(heap) < MaxNodes
    /\ heap' = IF out = "ok"
               THEN Append(heap, [type |-> "FileRoot", path |-> path, items |-> items[1]])
               ELSE heap
    /\ last' = [op |-> "FileRoot", path |-> path, items |-> items, outcome |-> out]

(***************************************************************************)
(* What a built object still allows.                                       *)
(***************************************************************************)
\* obj.<field> = value on a model with ConfigDict(frozen=True): refused
SetAttr(obj) ==
    /\ obj \in 1..Len(heap)
    /\ heap' = heap
    /\ last' = [op |-> "setattr", outcome |-> "FrozenInstance"]

\* branch.body.append(n): body is a plain list
AppendBody(b, n) ==
    /\ heap[b].type = "ConditionalBranch"
    /\ Len(heap[b].body) < MaxList
    /\ heap' = [heap EXCEPT ![b].body = Append(@, n)]
    /\ last' = [op |-> "body.append", obj |-> b, arg |-> n, outcome |-> "ok"]

\* group.elifs.append(b): elifs is a plain list when it is not None
AppendElifs(g, b) ==
    /\ heap[g].type = "ConditionalGroup"
    /\ heap[g].elifs # None
    /\ Len(heap[g].elifs[1]) < MaxList
    /\ heap' = [heap EXCEPT ![g].elifs = Some(Append(@[1], b))]
    /\ last' = [op |-> "elifs.append", obj |-> g, arg |-> b, outcome |-> "ok"]

\* group.else_body.append(n): else_body is a plain list when it is not None
AppendElseBody(g, n) ==
    /\ heap[g].type = "ConditionalGroup"
    /\ heap[g].else_body # None
    /\ Len(heap[g].else_body[1]) < MaxList
    /\ heap' = [heap EXCEPT ![g].else_body = Some(Append(@[1], n))]
    /\ last' = [op |-> "else_body.append", obj |-> g, arg |-> n, outcome |-> "ok"]

\* root.items.append(n): items is a plain list
AppendItems(r, n) ==
    /\ heap[r].type = "FileRoot"
    /\ Len(heap[r].items) < MaxList
    /\ heap' = [heap EXCEPT ![r].items = Append(@, n)]
    /\ last' = [op |-> "items.append", obj |-> r, arg |-> n, outcome |-> "ok"]

(***************************************************************************)
(* Input strings.                                                          *)
(***************************************************************************)
\* runs of at most n spaces, and a tab
Blanks(n) == {[i \in 1..k |-> " "] : k \in 0..n} \cup {<<"\t">>}

\* words put where the directive keyword goes
Words ==
    {Chars[k] : k \in DOMAIN Chars}
    \cup {<< >>, <<"i","f","d","e">>, <<"D","e","f","i","n","e">>,
          <<"d","e","f","i","n","e","1">>, <<"_","i","f">>, <<"1","i","f">>}

\* what follows the keyword on the line
Tails == {<< >>, <<" ","X">>, <<"(","X",")">>, <<" ">>, <<"/","/","c">>}

RawStrings ==
    {lead \o hash \o mid \o w \o t :
        lead \in Blanks(MaxWs), hash \in {<< >>, <<"#">>}, mid \in Blanks(MaxWs),
        w \in Words, t \in Tails}

(***************************************************************************)
(* Specifications.                                                         *)
(***************************************************************************)
Idle == [op |-> "none", outcome |-> "ok"]

Init ==
    /\ heap = << >>
    /\ last = Idle

\* DirectiveNode(kind=..., raw=...) on every kind and raw line, each the
\* first call of a session
DirectiveStep ==
    \E kind \in DirectiveKinds, raw \in RawStrings :
        /\ last = Idle
        /\ NewDirectiveNode(kind, raw)

SpecDirective == Init /\ [][DirectiveStep]_vars

\* condition texts handed to ConditionalBranch
Conditions ==
    {<< >>, <<" ">>, <<"\n">>, <<"F","O","O","_","B","A","R">>, <<"1","B","A","D">>,
     <<"A"," ","B">>, <<" ","A"," ">>, <<"A","\n">>, <<"\t","_","a","1","\n"," ">>,
     <<"A","\n","B">>, <<"A","-">>, <<"A","(">>, <<"_">>, <<"1">>, <<"a","1">>,
     <<"-","A">>, <<"x"," ",">"," ","1">>, <<"A","\n","\n">>, <<"A","!">>,
     <<" ","1","B"," ">>, <<"A","\t","B">>, <<"i","f">>}

\* raw lines handed to ConditionalBranch
BranchRaws ==
    {lead \o <<"#">> \o mid \o Chars[k] \o t :
        lead \in {<< >>, <<" ">>}, mid \in Blanks(MaxWs),
        k \in BranchKinds \cup {"define"}, t \in {<< >>, <<" ","X">>}}
    \cup {<< >>, <<" ">>, <<"i","f">>}

\* ConditionalBranch(kind=..., condition=..., body=..., raw=...), each the
\* first call of a session
BranchStep ==
    \E kind \in BranchKinds, condition \in Conditions,
       body \in {None, Some(<< >>)}, raw \in BranchRaws :
        /\ last = Idle
        /\ NewConditionalBranch(kind, condition, body, raw)

SpecBranch == Init /\ [][BranchStep]_vars

(***************************************************************************)
(* A building session.  Objects are built bottom-up in source order: a new *)
(* composite takes as children the most recent objects that have no parent *)
(* yet, every object is handed to at most one parent, and the session ends *)
(* at the first error raised.                                              *)
(***************************************************************************)
\* heap indices an object refers to
Children(o) ==
    IF o.type = "ConditionalBranch" THEN {o.body[i] : i \in 1..Len(o.body)}
    ELSE IF o.type = "ConditionalGroup"
         THEN {o.entry}
              \cup (IF o.elifs = None THEN {}
                    ELSE {o.elifs[1][i] : i \in 1..Len(o.elifs[1])})
              \cup (IF o.else_body = None THEN {}
                    ELSE {o.else_body[1][i] : i \in 1..Len(o.else_body[1])})
    ELSE IF o.type = "FileRoot" THEN {o.items[i] : i \in 1..Len(o.items)} \ {0}
    ELSE {}

\* objects no other object refers to
Free(h) == {i \in 1..Len(h) : \A j \in 1..Len(h) : i \notin Children(h[j])}

\* Node = Union[TextBlock, DirectiveNode, ConditionalGroup]
IsNode(o) == o.type \in {"TextBlock", "DirectiveNode", "ConditionalGroup"}

\* the elements of a set of heap indices in increasing order
RECURSIVE Sorted(_)
Sorted(S) ==
    IF S = {} THEN << >>
    ELSE LET m == CHOOSE x \in S : \A y \in S : y <= x
         IN Append(Sorted(S \ {m}), m)

\* the parentless objects, oldest first
Stack(h) == Sorted(Free(h))

\* the last k of the first n elements of st, in order
Recent(st, n, k) == SubSeq(st, n - k + 1, n)

AllNodes(h, ids) == \A i \in 1..Len(ids) : IsNode(h[ids[i]])
AllBranches(h, ids) == \A i \in 1..Len(ids) : h[ids[i]].type = "ConditionalBranch"

\* the object no other refers to from which i is reached
RECURSIVE Root(_, _)
Root(h, i) ==
    IF \A j \in 1..Len(h) : i \notin Children(h[j]) THEN i
    ELSE Root(h, CHOOSE j \in 1..Len(h) : i \in Children(h[j]))

\* lists of Nodes a constructor may be handed: the k most recent of the
\* first n parentless objects st
NodeLists(h, st, n) ==
    {Recent(st, n, k) : k \in {j \in 0..MaxBody : j <= n /\ AllNodes(h, Recent(st, n, j))}}

BranchLists(h, st, n) ==
    {Recent(st, n, k) : k \in {j \in 0..MaxBody : j <= n /\ AllBranches(h, Recent(st, n, j))}}

\* the lists of the most recent parentless Nodes
RecentNodes(h) == LET st == Stack(h) IN NodeLists(h, st, Len(st))

Optionals(S) == {None} \cup {Some(v) : v \in S}

OptLen(opt) == IF opt = None THEN 0 ELSE Len(opt[1])

\* the session goes on while constructors succeed; it is followed up to its
\* first error and up to its first in-place change of a built object
Running ==
    /\ last.outcome = "ok"
    /\ last.op \in {"none", "TextBlock", "DirectiveNode", "ConditionalBranch",
                    "ConditionalGroup", "FileRoot", "model_construct"}

\* the FileRoot is the last object a session builds
Building == Running /\ \A i \in 1..Len(heap) : heap[i].type # "FileRoot"

\* raw line of a branch of the given kind
BranchRaw(kind) == <<"#">> \o Chars[kind] \o <<" ","A">>

\* the arguments of a ConditionalGroup call: else_body is drawn from the
\* most recent parentless objects, elifs from those before them, and entry
\* is the one before these
GroupArgs(h) ==
    LET st == Stack(h)
        n == Len(st)
    IN UNION {UNION {
        IF n - OptLen(eb) - OptLen(el) >= 1
           /\ h[st[n - OptLen(eb) - OptLen(el)]].type = "ConditionalBranch"
        THEN {[entry |-> st[n - OptLen(eb) - OptLen(el)],
               elifs |-> el, else_body |-> eb]}
        ELSE {} :
            el \in Optionals(BranchLists(h, st, n - OptLen(eb)))} :
        eb \in Optionals(NodeLists(h, st, n))}

\* lists handed to FileRoot: Nodes, or a list holding None
ItemLists(h) == RecentNodes(h) \cup {<<0>>}

(***************************************************************************)
(* Sessions that build one tree, nested groups included, and then use it.  *)
(***************************************************************************)
BuildText ==
    /\ Building
    /\ NewTextBlock(Some(<<"x">>))

BuildBranch ==
    /\ Building
    /\ \E kind \in {"if", "elif"}, body \in RecentNodes(heap) :
          NewConditionalBranch(kind, <<"A">>, Some(body), BranchRaw(kind))

BuildGroup ==
    /\ Building
    /\ \E a \in GroupArgs(heap) :
          NewConditionalGroup(a.entry, a.elifs, a.else_body,
                              IF a.else_body = None THEN None
                              ELSE Some(<<"#">> \o Chars["else"]),
                              <<"#">> \o Chars["endif"])

BuildRoot ==
    /\ Building
    /\ \E items \in RecentNodes(heap) :
          NewFileRoot(<<"a",".","h">>, Some(items))

Assign ==
    /\ Running
    /\ \E obj \in 1..Len(heap) : SetAttr(obj)

\* the object an append hands over: the most recent parentless object,
\* unless the list's owner is reached from it
Spare(h, o) ==
    LET F == Free(h) \ {Root(h, o)} IN
    IF F = {} THEN {} ELSE {CHOOSE n \in F : \A m \in F : m <= n}

MutateBody ==
    /\ Running
    /\ \E o \in 1..Len(heap) : \E n \in Spare(heap, o) : AppendBody(o, n)

MutateElifs ==
    /\ Running
    /\ \E o \in 1..Len(heap) : \E n \in Spare(heap, o) :
          heap[n].type = "ConditionalBranch" /\ AppendElifs(o, n)

MutateElseBody ==
    /\ Running
    /\ \E o \in 1..Len(heap) : \E n \in Spare(heap, o) : AppendElseBody(o, n)

MutateItems ==
    /\ Running
    /\ \E o \in 1..Len(heap) : \E n \in Spare(heap, o) : AppendItems(o, n)

Next ==
    \/ BuildText
    \/ BuildBranch
    \/ BuildGroup
    \/ BuildRoot
    \/ Assign
    \/ MutateBody
    \/ MutateElifs
    \/ MutateElseBody
    \/ MutateItems

Spec == Init /\ [][Next]_vars

(***************************************************************************)
(* Sessions that end with the first composite: a few leaves and branches,  *)
(* then one ConditionalGroup or FileRoot call.                             *)
(***************************************************************************)
\* DirectiveNode.model_construct(kind=..., raw=...): the constructor every
\* pydantic model inherits that skips validation
ModelConstructDirective(kind, raw) ==
    /\ Len(heap) < MaxNodes
    /\ heap' = Append(heap, [type |-> "DirectiveNode", kind |-> kind, raw |-> raw])
    /\ last' = [op |-> "model_construct", kind |-> kind, raw |-> raw, outcome |-> "ok"]

\* raw lines of the directives handed to a composite
LeafRaws ==
    {<<"#">> \o Chars["define"] \o <<" ","X">>,
     <<" ","#"," ">> \o Chars["define"] \o <<"(","X",")">>,
     <<"#">> \o Chars["else"],
     <<"#">> \o Chars["if"] \o <<"(","X",")">>,
     <<"#"," ">> \o Chars["endif"] \o <<"/","/","c">>,
     Chars["else"]}

\* the kind and raw of the directives built without validation
UnvalidatedLeaves ==
    {<<"define", <<"#">> \o Chars["else"]>>,
     <<"else", <<"#">> \o Chars["else"]>>,
     <<"define", <<"#">> \o Chars["if"] \o <<"(","X",")">>>>,
     <<"define", <<"#"," ">> \o Chars["endif"] \o <<"/","/","c">>>>,
     <<"define", Chars["else"]>>}

ElseRaws == {<<"#">> \o Chars["else"], Chars["else"], <<"#">> \o Chars["endif"]}
EndifRaws == {<<"#">> \o Chars["endif"], << >>, Chars["endif"], <<"#">> \o Chars["else"]}

Composed == \E i \in 1..Len(heap) : heap[i].type \in {"ConditionalGroup", "FileRoot"}

Collecting == Running /\ ~ Composed /\ Len(heap) < MaxInputs

LeafText ==
    Collecting /\ NewTextBlock(Some(<<"x">>))

LeafDirective ==
    /\ Collecting
    /\ \E raw \in LeafRaws : NewDirectiveNode("define", raw)

LeafUnvalidated ==
    /\ Collecting
    /\ \E l \in UnvalidatedLeaves : ModelConstructDirective(l[1], l[2])

InputBranch ==
    /\ Collecting
    /\ \E kind \in BranchKinds, body \in RecentNodes(heap) :
          NewConditionalBranch(kind, <<"A">>, Some(body), BranchRaw(kind))

ComposeGroup ==
    /\ Running /\ ~ Composed
    /\ \E a \in GroupArgs(heap), else_raw \in {None, Some(Chars["else"])},
          endif_raw \in {<<"#">> \o Chars["endif"], << >>} :
          NewConditionalGroup(a.entry, a.elifs, a.else_body, else_raw, endif_raw)

ComposeRoot ==
    /\ Running /\ ~ Composed
    /\ \E path \in {<< >>, <<" ","\t">>, <<" ","a",".","h">>},
          items \in Optionals(ItemLists(heap)) :
          NewFileRoot(path, items)

NextComposite ==
    \/ LeafText
    \/ LeafDirective
    \/ LeafUnvalidated
    \/ InputBranch
    \/ ComposeGroup
    \/ ComposeRoot

SpecComposite == Init /\ [][NextComposite]_vars

(***************************************************************************)
(* Reference notions used by the properties, stated by positions in the    *)
(* string and not by the helpers above.                                    *)
(***************************************************************************)
NonBlankFrom(s, from) == \E i \in from..Len(s) : s[i] \notin Whitespace

\* index of the first non-blank character of s at or after from
FirstNonBlank(s, from) ==
    CHOOSE i \in from..Len(s) :
        s[i] \notin Whitespace /\ \A j \in from..(i - 1) : s[j] \in Whitespace

\* the word w stands at index q of s and the identifier run there ends with it
IdentRunAt(s, q, w) ==
    /\ q + Len(w) - 1 <= Len(s)
    /\ SubSeq(s, q, q + Len(w) - 1) = w
    /\ q + Len(w) > Len(s) \/ s[q + Len(w)] \notin IdentChar

\* raw is non-blank, its first non-blank character is '#', and the longest
\* identifier run after '#' and the blanks following it is the name of kind
RawNamesKind(raw, kind) ==
    /\ NonBlankFrom(raw, 1)
    /\ LET p == FirstNonBlank(raw, 1) IN
       /\ raw[p] = "#"
       /\ NonBlankFrom(raw, p + 1)
       /\ IdentRunAt(raw, FirstNonBlank(raw, p + 1), Chars[kind])

\* index where the keyword of a raw starting with '#' begins (one past the
\* end when nothing follows the '#')
KeywordStart(raw) ==
    LET p == FirstNonBlank(raw, 1) IN
    IF NonBlankFrom(raw, p + 1) THEN FirstNonBlank(raw, p + 1) ELSE Len(raw) + 1

\* raw with one blank inserted or removed before '#' or between '#' and the
\* keyword
BlankVariants(raw) ==
    IF ~ NonBlankFrom(raw, 1) \/ raw[FirstNonBlank(raw, 1)] # "#" THEN {}
    ELSE LET p == FirstNonBlank(raw, 1)
             q == KeywordStart(raw)
         IN  {SubSeq(raw, 1, i) \o <<b>> \o SubSeq(raw, i + 1, Len(raw)) :
                 i \in 0..(q - 1), b \in {" ", "\t"}}
             \cup {SubSeq(raw, 1, i - 1) \o SubSeq(raw, i + 1, Len(raw)) :
                 i \in {j \in 1..(q - 1) : raw[j] \in Whitespace}}

\* s without its leading and trailing blanks
Trimmed(s) ==
    IF ~ NonBlankFrom(s, 1) THEN << >>
    ELSE LET a == FirstNonBlank(s, 1)
             b == CHOOSE i \in 1..Len(s) :
                     s[i] \notin Whitespace
                     /\ \A j \in (i + 1)..Len(s) : s[j] \in Whitespace
         IN SubSeq(s, a, b)

\* t as a whole is [A-Za-z_][A-Za-z0-9_]*
IsIdentifier(t) ==
    /\ Len(t) >= 1
    /\ t[1] \in IdentStart
    /\ \A i \in 2..Len(t) : t[i] \in IdentChar

(***************************************************************************)
(* Properties.                                                             *)
(***************************************************************************)
\* C1: DirectiveNode construction succeeds exactly when raw is non-blank,
\* its first non-blank character is '#' and the longest identifier run after
\* the '#' and the blanks following it equals kind; a blank inserted or
\* removed before '#' or between '#' and the keyword leaves the outcome as it is.
C1_DirectiveAcceptance ==
    last.op = "DirectiveNode" =>
        /\ (last.outcome = "ok") <=> RawNamesKind(last.raw, last.kind)
        /\ \A v \in BlankVariants(last.raw) :
              (_validate_directive(last.kind, v) = "ok") <=> (last.outcome = "ok")

\* a define line with blanks before '#' and between '#' and the keyword
\* was accepted
C1_Witness ==
    /\ last.op = "DirectiveNode"
    /\ last.outcome = "ok"
    /\ last.kind = "define"
    /\ Head(last.raw) = " "
    /\ KeywordStart(last.raw) > FirstNonBlank(last.raw, 1) + 1

\* C2: with a raw line naming the branch's kind, an ifdef/ifndef branch is
\* constructed exactly when its trimmed condition as a whole is an
\* identifier, and an if/elif branch exactly when its condition is non-blank.
C2_BranchCondition ==
    (/\ last.op = "ConditionalBranch"
     /\ last.body # None
     /\ RawNamesKind(last.raw, last.kind)) =>
        ((last.outcome = "ok") <=>
            IF last.kind \in {"ifdef", "ifndef"}
            THEN IsIdentifier(Trimmed(last.condition))
            ELSE Trimmed(last.condition) # << >>)

\* "#ifdef 1BAD"-like call: an ifdef branch with condition 1BAD was refused
C2_Witness ==
    /\ last.op = "ConditionalBranch"
    /\ last.kind = "ifdef"
    /\ RawNamesKind(last.raw, last.kind)
    /\ last.condition = <<"1","B","A","D">>
    /\ last.outcome = "InvalidIdentifier"

\* the direct children of the bodies a ConditionalGroup call walks
BodyChildren(h, entry, elifs, else_body) ==
    Children(h[entry])
    \cup (IF elifs = None THEN {}
          ELSE UNION {Children(h[elifs[1][i]]) : i \in 1..Len(elifs[1])})
    \cup (IF else_body = None THEN {}
          ELSE {else_body[1][i] : i \in 1..Len(else_body[1])})

\* the objects reached from the objects of S, these included
RECURSIVE Reach(_, _)
Reach(h, S) ==
    LET T == S \cup UNION {Children(h[i]) : i \in S} IN
    IF T = S THEN S ELSE Reach(h, T)

\* number of ConditionalGroups nested in one another from group g down
RECURSIVE GroupDepth(_, _)
GroupDepth(h, g) ==
    LET inner == {c \in BodyChildren(h, h[g].entry, h[g].elifs, h[g].else_body) :
                     h[c].type = "ConditionalGroup"}
        depths == {GroupDepth(h, c) : c \in inner}
    IN 1 + (IF depths = {} THEN 0 ELSE CHOOSE d \in depths : \A e \in depths : e <= d)

\* a DirectiveNode as its own construction leaves it
WellBuiltDirective(o) ==
    o.type = "DirectiveNode" /\ o.kind \in DirectiveKinds /\ RawNamesKind(o.raw, o.kind)

\* raw starts, after '#', with one of if, ifdef, ifndef, elif, else, endif
NamesForbiddenKeyword(raw) ==
    \E k \in {"if", "ifdef", "ifndef", "elif", "else", "endif"} : RawNamesKind(raw, k)

LegalKinds(h, entry, elifs) ==
    /\ h[entry].kind \in {"if", "ifdef", "ifndef"}
    /\ elifs # None => \A i \in 1..Len(elifs[1]) : h[elifs[1][i]].kind = "elif"

\* C3: every ConditionalGroup that construction yields has an entry of kind
\* if, ifdef or ifndef and only elif branches in elifs; a call with an elif
\* entry, or with an elifs element that is not an elif, fails.
C3_GroupKinds ==
    /\ last.op = "ConditionalGroup" =>
          /\ ~ LegalKinds(heap, last.entry, last.elifs) => last.outcome # "ok"
          /\ heap[last.entry].kind = "elif" => last.outcome = "EntryKind"
    /\ \A i \in 1..Len(heap) :
          heap[i].type = "ConditionalGroup" => LegalKinds(heap, heap[i].entry, heap[i].elifs)

\* a call with a legal entry and an ifdef branch among the elifs was refused
C3_Witness ==
    /\ last.op = "ConditionalGroup"
    /\ heap[last.entry].kind = "if"
    /\ last.elifs # None
    /\ \E i \in 1..Len(last.elifs[1]) : heap[last.elifs[1][i]].kind = "ifdef"
    /\ last.outcome = "ElifKind"

\* C4: a ConditionalGroup call with a DirectiveNode among the direct
\* children of its bodies whose raw starts with if, ifdef, ifndef, elif, else
\* or endif fails, whatever kind the DirectiveNode declares.
C4_ForbiddenChildFails ==
    (/\ last.op = "ConditionalGroup"
     /\ \E c \in BodyChildren(heap, last.entry, last.elifs, last.else_body) :
           heap[c].type = "DirectiveNode" /\ NamesForbiddenKeyword(heap[c].raw))
    => last.outcome # "ok"

\* C5: once an object is built none of its fields changes, the contents of
\* its lists included.
C5_BuiltObjectsNeverChange ==
    [][\A i \in 1..Len(heap) : heap'[i] = heap[i]]_vars

\* C6: a ConditionalGroup call whose kinds are legal and whose bodies hold
\* TextBlocks and ConditionalGroups succeeds at every nesting depth, and its
\* outcome is the same whatever stands below the direct children of its bodies.
C6_NestingAccepted ==
    last.op = "ConditionalGroup" =>
        LET direct == BodyChildren(heap, last.entry, last.elifs, last.else_body)
            own == {last.entry} \cup direct
                   \cup (IF last.elifs = None THEN {}
                         ELSE {last.elifs[1][i] : i \in 1..Len(last.elifs[1])})
        IN /\ (/\ LegalKinds(heap, last.entry, last.elifs)
               /\ \A c \in direct : heap[c].type \in {"TextBlock", "ConditionalGroup"})
              => last.outcome = "ok"
           /\ \A d \in Reach(heap, direct) \ own :
                 _validate_group([heap EXCEPT ![d] =
                                     [type |-> "DirectiveNode", kind |-> "define",
                                      raw |-> <<"#">> \o Chars["else"]]],
                                 last.entry, last.elifs, last.else_body,
                                 last.else_raw, last.endif_raw) = last.outcome

\* a group holding a group that holds a group was built
C6_Witness ==
    /\ last.op = "ConditionalGroup"
    /\ last.outcome = "ok"
    /\ GroupDepth(heap, Len(heap)) >= 3

\* C7: FileRoot construction succeeds exactly when path is non-blank and
\* items is a list without a None element; a blank path gives the empty-path
\* error and a None element the null-item error; nothing else about the
\* items is looked at.
C7_RootAcceptance ==
    last.op = "FileRoot" =>
        /\ (last.outcome = "ok") <=>
              (/\ Trimmed(last.path) # << >>
               /\ last.items # None
               /\ \A i \in 1..Len(last.items[1]) : last.items[1][i] # 0)
        /\ Trimmed(last.path) = << >> => last.outcome = "EmptyPath"
        /\ (/\ Trimmed(last.path) # << >>
            /\ last.items # None
            /\ \E i \in 1..Len(last.items[1]) : last.items[1][i] = 0)
           => last.outcome = "NullItem"

\* FileRoot(path=" a.h", items=[None]) was refused for its None item
C7_Witness ==
    /\ last.op = "FileRoot"
    /\ last.path = <<" ","a",".","h">>
    /\ last.items = Some(<<0>>)
    /\ last.outcome = "NullItem"

\* C8: for a DirectiveNode child whose raw starts with '#', the body walk
\* reads the keyword _expect_directive reads, and refuses the child exactly
\* when that keyword is if, ifdef, ifndef, elif, else or endif.
C8_SameKeyword ==
    last.op = "ConditionalGroup" =>
        \A c \in BodyChildren(heap, last.entry, last.elifs, last.else_body) :
            (heap[c].type = "DirectiveNode" /\ _strip_hash_prefix(heap[c].raw).ok) =>
                /\ WalkKeyword(heap[c].raw) = ExpectKeyword(heap[c].raw)
                /\ (WalkNode(heap, c) # "ok")
                      <=> (ExpectKeyword(heap[c].raw) \in ForbiddenKeywords)

\* C9: the body walk accepts every DirectiveNode that its own construction
\* accepts, so a ConditionalGroup call over properly built children fails
\* only on the entry-kind or the elifs-kind check.
C9_BuiltChildrenAccepted ==
    /\ \A i \in 1..Len(heap) : WellBuiltDirective(heap[i]) => WalkNode(heap, i) = "ok"
    /\ (/\ last.op = "ConditionalGroup"
        /\ \A c \in BodyChildren(heap, last.entry, last.elifs, last.else_body) :
              \/ heap[c].type \in {"TextBlock", "ConditionalGroup"}
              \/ WellBuiltDirective(heap[c]))
       => last.outcome \in {"ok", "EntryKind", "ElifKind"}

\* a group was built over a directive that DirectiveNode itself had accepted
C9_Witness ==
    /\ last.op = "ConditionalGroup"
    /\ last.outcome = "ok"
    /\ \E c \in BodyChildren(heap, last.entry, last.elifs, last.else_body) :
          /\ WellBuiltDirective(heap[c])
          /\ WalkKeyword(heap[c].raw) # ExpectKeyword(heap[c].raw)

\* C10: the outcome of a ConditionalGroup call is the same for every
\* else_raw and endif_raw.
C10_RawsIgnored ==
    last.op = "ConditionalGroup" =>
        \A er \in Optionals(ElseRaws), nr \in EndifRaws :
            _validate_group(heap, last.entry, last.elifs, last.else_body, er, nr)
                = last.outcome

\* a group was built with an else_raw lacking '#', no else_body and an empty
\* endif_raw
C10_Witness ==
    /\ last.op = "ConditionalGroup"
    /\ last.outcome = "ok"
    /\ last.else_body = None
    /\ last.else_raw = Some(Chars["else"])
    /\ last.endif_raw = << >>

====
